---------------------------- MODULE Spec2Model ----------------------------
(***************************************************************************)
(* Model of src/app.py: the Streamlit script that validates an ETL to      *)
(* PySpark conversion with two chat-completion calls, buckets the report   *)
(* into four sections (parse_sections) and exports it (create_pdf,         *)
(* create_docx).                                                           *)
(*                                                                         *)
(* Python values are encoded as follows.                                   *)
(*   str            a TLA+ string; Len, \o, Head, Tail and SubSeq act on   *)
(*                  its characters                                         *)
(*   None / a value the empty tuple <<>> / the one-element tuple <<v>>     *)
(*   list           a sequence                                             *)
(*   dict           a sequence of [key, items] records in insertion order  *)
(* TLA+ strings are ASCII, so U+2022 (the bullet character) is written     *)
(* BulletChar, a character that stands for nothing else.                   *)
(***************************************************************************)
EXTENDS Naturals, Sequences, FiniteSets

VARIABLES
    \* ---- the script run (Spec) ----
    etl_option,          \* st.radio "Choose ETL Type:"
    inf_widget,          \* file_uploader key="inf": TRUE when a file is held
    ds_widget,           \* file_uploader key="ds"
    pyspark_widget,      \* file_uploader key="pyspark"
    button,              \* what st.button returns in the current run
    trigger,             \* the interaction that started the current run
    pc,                  \* position of the current script run
    informatica_file,    \* <<>> (None) or <<"file">>
    datastage_file,
    pyspark_file,
    validation_report,   \* <<>> (None) or <<text>>
    corrected_pyspark,   \* <<>> (None) or <<text>>
    calls,               \* the remote calls of the current run, in order
    ui,                  \* the elements the current run has put on the page
    report_sections,     \* `sections` of the Download Section, <<>> when unbound
    pdf_file,            \* <<>> when unbound, else <<elements>>
    docx_file,
    \* ---- parse_sections / create_pdf / create_docx on their own (ParseSpec) ----
    text,                \* the argument of parse_sections
    ppc,                 \* position inside parse_sections and the exporters
    todo,                \* the lines the for loop has not visited yet
    done,                \* the lines it has visited (history, for the properties)
    current,             \* the cursor: <<>> or <<section name>>
    sections,            \* the dict being filled
    pdf,                 \* elements handed to doc.build, <<>> before create_pdf
    docx                 \* body of the Document, <<>> before create_docx

runVars == <<etl_option, inf_widget, ds_widget, pyspark_widget, button, trigger, pc,
             informatica_file, datastage_file, pyspark_file, validation_report,
             corrected_pyspark, calls, ui, report_sections, pdf_file, docx_file>>
parseVars == <<text, ppc, todo, done, current, sections, pdf, docx>>
vars == <<runVars, parseVars>>

None == <<>>
Some(v) == <<v>>
Truthy(opt) == opt # None /\ opt[1] # ""

(***************************************************************************)
(* Bounds.                                                                 *)
(***************************************************************************)
MaxLines == 3

(***************************************************************************)
(* Python string primitives.                                               *)
(***************************************************************************)
BulletChar == "@"
Whitespace == {" ", "\t", "\n", "\r", "\f"}

Char(s, i) == SubSeq(s, i, i)

\* str.lstrip(chars): from the first character that is not in chars
LStripSet(s, chars) ==
    IF \A i \in 1..Len(s) : Char(s, i) \in chars THEN ""
    ELSE SubSeq(s, CHOOSE i \in 1..Len(s) :
                       /\ Char(s, i) \notin chars
                       /\ \A j \in 1..(i - 1) : Char(s, j) \in chars,
                Len(s))

\* str.rstrip(chars): up to the last character that is not in chars
RStripSet(s, chars) ==
    IF \A i \in 1..Len(s) : Char(s, i) \in chars THEN ""
    ELSE SubSeq(s, 1, CHOOSE i \in 1..Len(s) :
                          /\ Char(s, i) \notin chars
                          /\ \A j \in (i + 1)..Len(s) : Char(s, j) \in chars)

\* str.strip()
Strip(s) == RStripSet(LStripSet(s, Whitespace), Whitespace)

\* p in s, for a non-empty p
Contains(s, p) ==
    \E i \in 1..Len(s) :
        /\ i + Len(p) - 1 <= Len(s)
        /\ Char(s, i) = Char(p, 1)
        /\ SubSeq(s, i, i + Len(p) - 1) = p

StartsWith(s, p) == Len(p) <= Len(s) /\ SubSeq(s, 1, Len(p)) = p

\* str.split(sep) for a one-character sep
Split(s, sep) ==
    LET at == {i \in 1..Len(s) : Char(s, i) = sep}
        cut(k) == IF k = 0 THEN 0
                  ELSE IF k = Cardinality(at) + 1 THEN Len(s) + 1
                  ELSE CHOOSE i \in at : Cardinality({j \in at : j <= i}) = k
    IN [k \in 1..(Cardinality(at) + 1) |-> SubSeq(s, cut(k - 1) + 1, cut(k) - 1)]

(***************************************************************************)
(* parse_sections.                                                         *)
(***************************************************************************)
EmptySections ==
    << [key |-> "Correct Parts", items |-> <<>>],
       [key |-> "Potential Issues", items |-> <<>>],
       [key |-> "Missing Logic", items |-> <<>>],
       [key |-> "Suggested Improvements", items |-> <<>>] >>

\* Faulty variant of AppendTo: list.insert(0, ...) instead of list.append(...).
AppendToFront(secs, k, item) ==
    [i \in DOMAIN secs |->
        IF secs[i].key = k
        THEN [secs[i] EXCEPT !.items = <<item>> \o @]
        ELSE secs[i]]

AppendTo(secs, k, item) ==
    [i \in DOMAIN secs |->
        IF secs[i].key = k
        THEN [secs[i] EXCEPT !.items = Append(@, item)]
        ELSE secs[i]]

\* Faulty variant of HeadingIn: the match made case-insensitive (the all-lower-case
\* spellings are recognized too).
HeadingInAnyCase(line) ==
    IF Contains(line, "Correct parts") \/ Contains(line, "Correct Parts")
       \/ Contains(line, "correct parts")
    THEN Some("Correct Parts")
    ELSE IF Contains(line, "Potential issues") \/ Contains(line, "Potential Issues")
            \/ Contains(line, "potential issues")
    THEN Some("Potential Issues")
    ELSE IF Contains(line, "Missing logic") \/ Contains(line, "Missing Logic")
            \/ Contains(line, "missing logic")
    THEN Some("Missing Logic")
    ELSE IF Contains(line, "Suggested improvements")
            \/ Contains(line, "Suggested Improvements")
            \/ Contains(line, "suggested improvements")
    THEN Some("Suggested Improvements")
    ELSE None

\* lines 140-147: the section whose heading phrase the line contains (the first
\* branch of the if/elif chain that matches), None when it contains none.
HeadingIn(line) ==
    IF Contains(line, "Correct parts") \/ Contains(line, "Correct Parts")
    THEN Some("Correct Parts")
    ELSE IF Contains(line, "Potential issues") \/ Contains(line, "Potential Issues")
    THEN Some("Potential Issues")
    ELSE IF Contains(line, "Missing logic") \/ Contains(line, "Missing Logic")
    THEN Some("Missing Logic")
    ELSE IF Contains(line, "Suggested improvements")
            \/ Contains(line, "Suggested Improvements")
    THEN Some("Suggested Improvements")
    ELSE None

\* Faulty variant of InitialCursor: the cursor starts on the first section.
InitialCursorFirstSection == Some("Correct Parts")

\* line 137
InitialCursor == None

\* lines 139-150: the body of the for loop on the raw line `raw`
ParseStep(st, raw) ==
    LET line == Strip(raw) IN
    IF HeadingIn(line) # None
    THEN [st EXCEPT !.current = HeadingIn(line)]
    ELSE IF StartsWith(line, "-") \/ StartsWith(line, BulletChar)
    THEN IF Truthy(st.current)
         THEN [st EXCEPT !.sections =
                  AppendTo(@, st.current[1],
                           Strip(LStripSet(line, {"-", BulletChar, " "})))]
         ELSE st
    ELSE st

RECURSIVE ParseLoop(_, _)
ParseLoop(st, ls) ==
    IF ls = <<>> THEN st ELSE ParseLoop(ParseStep(st, Head(ls)), Tail(ls))

parse_sections(t) ==
    ParseLoop([current |-> InitialCursor, sections |-> EmptySections],
              Split(t, "\n")).sections

(***************************************************************************)
(* create_pdf and create_docx: the flowables handed to doc.build, and the  *)
(* body of the Word document.                                              *)
(***************************************************************************)
Spacer == [kind |-> "Spacer", width |-> 1, height |-> 12]

\* lines 163-172: one iteration of the loop over sections.items()
PdfSection(sec, items) ==
    << [kind |-> "Paragraph", style |-> "Heading2", text |-> sec] >>
    \o (IF items # <<>>
        THEN << [kind |-> "ListFlowable", bulletType |-> "bullet",
                 items |-> [i \in DOMAIN items |->
                              [kind |-> "ListItem", style |-> "Normal",
                               text |-> items[i]]]] >>
        ELSE << [kind |-> "Paragraph", style |-> "Normal", text |-> "No findings."] >>)
    \o << Spacer >>

RECURSIVE PdfSections(_)
PdfSections(secs) ==
    IF secs = <<>> THEN <<>>
    ELSE PdfSection(Head(secs).key, Head(secs).items) \o PdfSections(Tail(secs))

create_pdf(secs) ==
    << [kind |-> "Paragraph", style |-> "Title",
        text |-> "ETL -> PySpark Validation Report"],
       Spacer >>
    \o PdfSections(secs)

\* Faulty variant of DocxSection: the else branch (the placeholder) left out.
DocxSectionNoPlaceholder(sec, items) ==
    << [kind |-> "heading", level |-> 1, text |-> sec] >>
    \o [i \in DOMAIN items |->
          [kind |-> "paragraph", style |-> "List Bullet", text |-> items[i]]]

\* lines 184-189: one iteration of the loop over sections.items()
DocxSection(sec, items) ==
    << [kind |-> "heading", level |-> 1, text |-> sec] >>
    \o (IF items # <<>>
        THEN [i \in DOMAIN items |->
                [kind |-> "paragraph", style |-> "List Bullet", text |-> items[i]]]
        ELSE << [kind |-> "paragraph", style |-> "Normal", text |-> "No findings."] >>)

RECURSIVE DocxSections(_)
DocxSections(secs) ==
    IF secs = <<>> THEN <<>>
    ELSE DocxSection(Head(secs).key, Head(secs).items) \o DocxSections(Tail(secs))

create_docx(secs) ==
    << [kind |-> "heading", level |-> 0,
        text |-> "ETL -> PySpark Validation Report"] >>
    \o DocxSections(secs)

(***************************************************************************)
(* The script run.  Streamlit runs the script top to bottom on page load   *)
(* and again on every widget interaction; a run is the steps               *)
(*   StartRun (lines 36-62), ValidationSection (65-94, 131-132),           *)
(*   ValidationCall (96-107), CorrectionCall (109-127),                    *)
(*   DownloadSection (195-215), CorrectedSection (218-227)                 *)
(* and the page then waits (pc = "idle") for the next interaction.         *)
(* Emoji of the labels are left out (TLA+ strings are ASCII).              *)
(***************************************************************************)
El(kind, body) == [el |-> kind, body |-> body]

\* What client.chat.completions.create can do: raise, or return a completion
\* whose message.content is None or a text.
Raised == [kind |-> "raised", content |-> ""]
NoContent == [kind |-> "none", content |-> ""]
Text(t) == [kind |-> "text", content |-> t]

ReportTexts ==
    { "",
      " \n",
      "Correct Parts\n- uses correct join\nPotential Issues\n- missing null check",
      "The conversion looks fine.\n- nothing to report\n",
      "- Correct parts\n@ reads the same source\n* Missing logic\n" }

CorrectedTexts ==
    { "",
      "\n  ",
      "df = spark.read.parquet(src)\n" }

ValidationReplies == {Raised, NoContent} \cup {Text(t) : t \in ReportTexts}
CorrectionReplies == {Raised, NoContent} \cup {Text(t) : t \in CorrectedTexts}

\* Faulty variant of FilesPresent: `or` in place of `and`.
FilesPresentEither ==
    (informatica_file # None \/ datastage_file # None) \/ pyspark_file # None

\* line 66: (informatica_file or datastage_file) and pyspark_file
FilesPresent ==
    (informatica_file # None \/ datastage_file # None) /\ pyspark_file # None

\* Faulty variant of ShowCorrected: `is not None` in place of truthiness.
ShowCorrectedIfSet == corrected_pyspark # None

\* line 195: if validation_report
ShowReport == Truthy(validation_report)
\* line 218: if corrected_pyspark
ShowCorrected == Truthy(corrected_pyspark)

\* Faulty variant of ExceptionHandler: the exception swallowed.
ExceptionHandlerSilent == <<>>

\* lines 129-130
ExceptionHandler == << El("error", "Error during validation: ...") >>

\* Faulty variant of AfterValidation: each call in a try block of its own, so the script
\* goes on to the correction call whatever the validation call did.
AfterValidationAlways(reply) == "correction_call"

\* lines 96-130: where the script goes after the validation call: on to the
\* correction call, or, from the except clause, out of the try block.
AfterValidation(reply) ==
    IF reply.kind = "text" THEN "correction_call" ELSE "download_section"

\* Faulty variant of ReportDownloads: the Word button left out.
ReportDownloadsPdfOnly == << El("download_button", "Validation_Report.pdf") >>

\* lines 202-215
ReportDownloads ==
    << El("download_button", "Validation_Report.pdf"),
       El("download_button", "Validation_Report.docx") >>

\* Faulty variant of StartRun: the two results kept across runs (as st.session_state
\* would keep them) instead of reset.
StartRunKeeping(pressed, by, opt, inf, ds, py) ==
    /\ etl_option' = opt
    /\ inf_widget' = inf
    /\ ds_widget' = ds
    /\ pyspark_widget' = py
    /\ button' = pressed
    /\ trigger' = by
    /\ informatica_file' = IF opt = "Informatica" /\ inf THEN Some("file") ELSE None
    /\ datastage_file' = IF opt = "Datastage" /\ ds THEN Some("file") ELSE None
    /\ pyspark_file' = IF py THEN Some("file") ELSE None
    /\ UNCHANGED <<validation_report, corrected_pyspark>>
    /\ calls' = <<>>
    /\ ui' = <<>>
    /\ report_sections' = <<>>
    /\ pdf_file' = None
    /\ docx_file' = None
    /\ pc' = "validation_section"
    /\ UNCHANGED parseVars

\* lines 36-62: a run starts with the widgets as the interaction left them; the
\* page is rebuilt, the names of the script are fresh and the two results are None.
StartRun(pressed, by, opt, inf, ds, py) ==
    /\ etl_option' = opt
    /\ inf_widget' = inf
    /\ ds_widget' = ds
    /\ pyspark_widget' = py
    /\ button' = pressed
    /\ trigger' = by
    /\ informatica_file' = IF opt = "Informatica" /\ inf THEN Some("file") ELSE None
    /\ datastage_file' = IF opt = "Datastage" /\ ds THEN Some("file") ELSE None
    /\ pyspark_file' = IF py THEN Some("file") ELSE None
    /\ validation_report' = None
    /\ corrected_pyspark' = None
    /\ calls' = <<>>
    /\ ui' = <<>>
    /\ report_sections' = <<>>
    /\ pdf_file' = None
    /\ docx_file' = None
    /\ pc' = "validation_section"
    /\ UNCHANGED parseVars

\* ---- the interactions, each of which reruns the script ----
\* line 44: the radio
ChooseEtl(o) ==
    /\ pc = "idle"
    /\ o # etl_option
    /\ StartRun(FALSE, "radio", o, inf_widget, ds_widget, pyspark_widget)

\* lines 51, 54: a file put into, or taken out of, the uploader that is shown
SetEtlFile(b) ==
    /\ pc = "idle"
    /\ IF etl_option = "Informatica"
       THEN b # inf_widget
            /\ StartRun(FALSE, "etl_upload", etl_option, b, ds_widget, pyspark_widget)
       ELSE b # ds_widget
            /\ StartRun(FALSE, "etl_upload", etl_option, inf_widget, b, pyspark_widget)

\* line 59
SetPysparkFile(b) ==
    /\ pc = "idle"
    /\ b # pyspark_widget
    /\ StartRun(FALSE, "pyspark_upload", etl_option, inf_widget, ds_widget, b)

\* line 65: the button clicked; st.button returns True in the run this starts
ClickValidate ==
    /\ pc = "idle"
    /\ StartRun(TRUE, "validate", etl_option, inf_widget, ds_widget, pyspark_widget)

\* lines 203, 210, 222: a download button of the page clicked
ClickDownload ==
    /\ pc = "idle"
    /\ \E i \in DOMAIN ui : ui[i].el = "download_button"
    /\ StartRun(FALSE, "download", etl_option, inf_widget, ds_widget, pyspark_widget)

\* ---- the steps of a run ----
\* lines 65-94, 131-132
ValidationSection ==
    /\ pc = "validation_section"
    /\ IF button
       THEN IF FilesPresent
            THEN /\ ui' = Append(ui, El("info", "Validating conversion... please wait."))
                 /\ pc' = "validation_call"
            ELSE /\ ui' = Append(ui, El("warning",
                     "Please upload both an ETL file (Informatica/Datastage) and a PySpark file."))
                 /\ pc' = "download_section"
       ELSE /\ ui' = ui
            /\ pc' = "download_section"
    /\ UNCHANGED <<etl_option, inf_widget, ds_widget, pyspark_widget, button, trigger,
                   informatica_file, datastage_file, pyspark_file, validation_report,
                   corrected_pyspark, calls, report_sections, pdf_file, docx_file,
                   parseVars>>

\* lines 96-107 and 129-130: content.strip() raises on None, inside the try block
ValidationCall ==
    /\ pc = "validation_call"
    /\ \E reply \in ValidationReplies :
        /\ calls' = Append(calls, [call |-> "validation", reply |-> reply])
        /\ IF reply.kind = "text"
           THEN /\ validation_report' = Some(Strip(reply.content))
                /\ ui' = ui \o << El("success", "Validation Completed"),
                                  El("markdown", "### Validation Report"),
                                  El("write", Strip(reply.content)) >>
           ELSE /\ validation_report' = validation_report
                /\ ui' = ui \o ExceptionHandler
        /\ pc' = AfterValidation(reply)
    /\ UNCHANGED <<etl_option, inf_widget, ds_widget, pyspark_widget, button, trigger,
                   informatica_file, datastage_file, pyspark_file, corrected_pyspark,
                   report_sections, pdf_file, docx_file, parseVars>>

\* lines 109-130
CorrectionCall ==
    /\ pc = "correction_call"
    /\ \E reply \in CorrectionReplies :
        /\ calls' = Append(calls, [call |-> "correction", reply |-> reply])
        /\ IF reply.kind = "text"
           THEN /\ corrected_pyspark' = Some(Strip(reply.content))
                /\ ui' = ui
           ELSE /\ corrected_pyspark' = corrected_pyspark
                /\ ui' = ui \o ExceptionHandler
    /\ pc' = "download_section"
    /\ UNCHANGED <<etl_option, inf_widget, ds_widget, pyspark_widget, button, trigger,
                   informatica_file, datastage_file, pyspark_file, validation_report,
                   report_sections, pdf_file, docx_file, parseVars>>

\* lines 195-215
DownloadSection ==
    /\ pc = "download_section"
    /\ IF ShowReport
       THEN /\ report_sections' = parse_sections(validation_report[1])
            /\ pdf_file' = Some(create_pdf(parse_sections(validation_report[1])))
            /\ docx_file' = Some(create_docx(parse_sections(validation_report[1])))
            /\ ui' = ui \o ReportDownloads
       ELSE UNCHANGED <<report_sections, pdf_file, docx_file, ui>>
    /\ pc' = "corrected_section"
    /\ UNCHANGED <<etl_option, inf_widget, ds_widget, pyspark_widget, button, trigger,
                   informatica_file, datastage_file, pyspark_file, validation_report,
                   corrected_pyspark, calls, parseVars>>

\* lines 218-227
CorrectedSection ==
    /\ pc = "corrected_section"
    /\ IF ShowCorrected
       THEN ui' = ui \o << El("markdown", "### Corrected PySpark Code"),
                           El("code", corrected_pyspark[1]),
                           El("download_button", "Corrected_PySpark.py") >>
       ELSE ui' = ui
    /\ pc' = "idle"
    /\ UNCHANGED <<etl_option, inf_widget, ds_widget, pyspark_widget, button, trigger,
                   informatica_file, datastage_file, pyspark_file, validation_report,
                   corrected_pyspark, calls, report_sections, pdf_file, docx_file,
                   parseVars>>

ParseIdle ==
    /\ text = ""
    /\ ppc = "idle"
    /\ todo = <<>>
    /\ done = <<>>
    /\ current = None
    /\ sections = <<>>
    /\ pdf = <<>>
    /\ docx = <<>>

\* The first run, on page load: no file uploaded, the button not pressed.
Init ==
    /\ etl_option = "Informatica"
    /\ inf_widget = FALSE
    /\ ds_widget = FALSE
    /\ pyspark_widget = FALSE
    /\ button = FALSE
    /\ trigger = "load"
    /\ informatica_file = None
    /\ datastage_file = None
    /\ pyspark_file = None
    /\ validation_report = None
    /\ corrected_pyspark = None
    /\ calls = <<>>
    /\ ui = <<>>
    /\ report_sections = <<>>
    /\ pdf_file = None
    /\ docx_file = None
    /\ pc = "validation_section"
    /\ ParseIdle

Next ==
    \/ \E o \in {"Informatica", "Datastage"} : ChooseEtl(o)
    \/ \E b \in BOOLEAN : SetEtlFile(b)
    \/ \E b \in BOOLEAN : SetPysparkFile(b)
    \/ ClickValidate
    \/ ClickDownload
    \/ ValidationSection
    \/ ValidationCall
    \/ CorrectionCall
    \/ DownloadSection
    \/ CorrectedSection

Spec == Init /\ [][Next]_vars

(***************************************************************************)
(* Properties of the script run (Spec).                                    *)
(***************************************************************************)
Shown(kind) == \E i \in DOMAIN ui : ui[i].el = kind
Offered(file) == \E i \in DOMAIN ui : ui[i] = El("download_button", file)
ReportDisplayed == \E i \in DOMAIN ui : ui[i].el = "write" /\ ui[i].body # ""
AnyDownload == \E i \in DOMAIN ui : ui[i].el = "download_button"
ReportOffered == Offered("Validation_Report.pdf") /\ Offered("Validation_Report.docx")
ReportWithheld == ~Offered("Validation_Report.pdf") /\ ~Offered("Validation_Report.docx")
RunEnded == pc = "idle"
MissingInput ==
    (informatica_file = None /\ datastage_file = None) \/ pyspark_file = None
CallRaised(i) == i \in DOMAIN calls /\ calls[i].reply.kind = "raised"
ReturnedText(i) == i \in DOMAIN calls /\ calls[i].reply.kind = "text"
EmptyText(i) == Strip(calls[i].reply.content) = ""

\* C1: in a run where Validate is pressed with the ETL file or the PySpark file
\* absent, the remote client is never called, a warning is shown, and at the end
\* of the run both results are unset and no download is offered.
C1_NoCallOnMissingInput ==
    (button /\ MissingInput) =>
        /\ calls = <<>>
        /\ pc \notin {"validation_call", "correction_call"}
        /\ pc # "validation_section" => Shown("warning")
        /\ validation_report = None /\ corrected_pyspark = None
        /\ ~AnyDownload

\* A run with Validate pressed, an ETL file present and no PySpark file, ended.
C1_Witness ==
    /\ RunEnded /\ button
    /\ (informatica_file # None \/ datastage_file # None) /\ pyspark_file = None
    /\ Shown("warning")

\* No call follows a call that raised, and no call is made twice.
NoRetry ==
    /\ \A i \in DOMAIN calls : CallRaised(i) => i = Len(calls)
    /\ \A i, j \in DOMAIN calls : calls[i].call = calls[j].call => i = j

\* C2 (as stated): in a run where a remote call raises, validation or correction,
\* an error is shown, no call is retried, no report text is displayed and no
\* PDF/Word download is offered.
C2_NoReportAfterAnyFailure ==
    (\E i \in DOMAIN calls : CallRaised(i)) =>
        /\ Shown("error")
        /\ NoRetry
        /\ ~ReportDisplayed
        /\ ReportWithheld

\* C2 (amended): in a run where a remote call raises an error is shown and no
\* call is retried; when the validation call raised, no report text is displayed
\* and no download is offered; when the correction call raised, the report is
\* already on the page and stays, its PDF/Word downloads are offered at the end
\* of the run when it is not empty, and the corrected source is not offered.
C2_FailureHandling ==
    (\E i \in DOMAIN calls : CallRaised(i)) =>
        /\ Shown("error")
        /\ NoRetry
        /\ ~Offered("Corrected_PySpark.py")
        /\ CallRaised(1) => (~Shown("write") /\ ReportWithheld)
        /\ CallRaised(2) =>
              /\ Shown("write")
              /\ ~EmptyText(1) => ReportDisplayed
              /\ RunEnded => (IF EmptyText(1) THEN ReportWithheld ELSE ReportOffered)

\* The correction call raised after a non-empty report; the run has ended.
C2_Witness ==
    /\ RunEnded
    /\ CallRaised(2)
    /\ Shown("error") /\ ReportDisplayed /\ ReportOffered

\* C3: at most two calls in a run, validation first and correction second; the
\* correction call is made only after the validation call returned, never after
\* it failed.
C3_CallOrder ==
    /\ Len(calls) <= 2
    /\ Len(calls) >= 1 => calls[1].call = "validation"
    /\ Len(calls) = 2 => (calls[2].call = "correction" /\ ReturnedText(1))
    /\ pc = "correction_call" => (Len(calls) = 1 /\ ReturnedText(1))

\* Both calls have been made in one run, the second one failing.
C3_Witness ==
    /\ Len(calls) = 2
    /\ calls[2].call = "correction"
    /\ ~ReturnedText(2)

\* C7 (as stated): whenever both calls return, whatever text they return, the PDF,
\* the Word and the corrected-source downloads are all offered in that run.
C7_DownloadsWhateverText ==
    (RunEnded /\ ReturnedText(1) /\ ReturnedText(2)) =>
        /\ Shown("success")
        /\ ReportOffered
        /\ Offered("Corrected_PySpark.py")

\* C7 (amended): whenever both calls return the success is shown, the PDF and
\* Word downloads are offered exactly when the report is not empty once stripped
\* of surrounding whitespace, and the corrected-source download exactly when the
\* corrected text is not; all three are offered when neither is empty.
C7_DownloadsForNonEmptyText ==
    (RunEnded /\ ReturnedText(1) /\ ReturnedText(2)) =>
        /\ Shown("success")
        /\ IF EmptyText(1) THEN ReportWithheld ELSE ReportOffered
        /\ Offered("Corrected_PySpark.py") <=> ~EmptyText(2)

\* Both calls returned non-empty text and the three downloads are on the page.
C7_Witness ==
    /\ RunEnded /\ ReturnedText(1) /\ ReturnedText(2)
    /\ ~EmptyText(1) /\ ~EmptyText(2)
    /\ ReportOffered /\ Offered("Corrected_PySpark.py")

\* C9: the results do not survive a run: in a run where Validate is not pressed,
\* whatever the runs before it, no remote call is made, both results are unset
\* and no download is offered.
C9_NothingSurvivesARun ==
    ~button =>
        /\ calls = <<>>
        /\ pc \notin {"validation_call", "correction_call"}
        /\ validation_report = None /\ corrected_pyspark = None
        /\ ~AnyDownload

\* The rerun a click on a download button causes (so the page before it offered
\* one) has ended.
C9_Witness ==
    /\ RunEnded
    /\ trigger = "download"
    /\ ~button

CorrectedOnlyAfterReport ==
    /\ corrected_pyspark # None =>
          /\ validation_report # None
          /\ Len(calls) = 2 /\ ReturnedText(1) /\ ReturnedText(2)
    /\ Offered("Corrected_PySpark.py") =>
          /\ button /\ ~MissingInput
          /\ Len(calls) = 2 /\ ReturnedText(1) /\ ReturnedText(2)
          /\ ~EmptyText(2)

\* C10: corrected_pyspark is set only if validation_report was set earlier in the
\* same run; the corrected-source download is never offered when the validation
\* call failed or was not made or an input file is missing, and only when the
\* correction call returned a text that is not empty.
C10_CorrectedOnlyAfterReport ==
    /\ []CorrectedOnlyAfterReport
    /\ [][(corrected_pyspark = None /\ corrected_pyspark' # None)
              => (validation_report # None /\ validation_report' = validation_report)]_vars

\* The corrected source is offered after an empty report.
C10_Witness ==
    /\ RunEnded
    /\ Offered("Corrected_PySpark.py")
    /\ validation_report = Some("")

(***************************************************************************)
(* ParseSpec: parse_sections, create_pdf and create_docx applied to every  *)
(* text of at most MaxLines lines drawn from Catalogue.                    *)
(***************************************************************************)
Catalogue ==
    { "Correct Parts",
      "## Potential issues:",
      "- Missing Logic",
      "1. Suggested Improvements and Correct parts",
      "- uses correct join",
      "  @- - missing null check ",
      "* correct parts",
      "-",
      "" }

RECURSIVE Join(_)
Join(ls) ==
    IF ls = <<>> THEN ""
    ELSE IF Len(ls) = 1 THEN ls[1]
    ELSE ls[1] \o "\n" \o Join(Tail(ls))

Texts ==
    { Join(ls) : ls \in UNION { [1..n -> Catalogue] : n \in 0..MaxLines } }

RunIdle ==
    /\ etl_option = "Informatica"
    /\ inf_widget = FALSE
    /\ ds_widget = FALSE
    /\ pyspark_widget = FALSE
    /\ button = FALSE
    /\ trigger = "load"
    /\ pc = "idle"
    /\ informatica_file = None
    /\ datastage_file = None
    /\ pyspark_file = None
    /\ validation_report = None
    /\ corrected_pyspark = None
    /\ calls = <<>>
    /\ ui = <<>>
    /\ report_sections = <<>>
    /\ pdf_file = None
    /\ docx_file = None

ParseInit ==
    /\ RunIdle
    /\ text \in Texts
    /\ ppc = "call"
    /\ todo = <<>>
    /\ done = <<>>
    /\ current = None
    /\ sections = <<>>
    /\ pdf = <<>>
    /\ docx = <<>>

\* lines 136-138: the dict, the cursor, text.split("\n")
ParseBegin ==
    /\ ppc = "call"
    /\ sections' = EmptySections
    /\ current' = InitialCursor
    /\ todo' = Split(text, "\n")
    /\ done' = <<>>
    /\ ppc' = "loop"
    /\ UNCHANGED <<runVars, text, pdf, docx>>

\* lines 138-150: one iteration of the for loop
ParseLine ==
    /\ ppc = "loop"
    /\ todo # <<>>
    /\ LET st == ParseStep([current |-> current, sections |-> sections], Head(todo))
       IN /\ current' = st.current
          /\ sections' = st.sections
    /\ done' = Append(done, Head(todo))
    /\ todo' = Tail(todo)
    /\ UNCHANGED <<runVars, text, ppc, pdf, docx>>

\* line 151
ParseReturn ==
    /\ ppc = "loop"
    /\ todo = <<>>
    /\ ppc' = "parsed"
    /\ UNCHANGED <<runVars, text, todo, done, current, sections, pdf, docx>>

\* lines 153-176
CreatePdf ==
    /\ ppc = "parsed"
    /\ pdf' = create_pdf(sections)
    /\ ppc' = "pdf"
    /\ UNCHANGED <<runVars, text, todo, done, current, sections, docx>>

\* lines 178-192
CreateDocx ==
    /\ ppc = "pdf"
    /\ docx' = create_docx(sections)
    /\ ppc' = "exported"
    /\ UNCHANGED <<runVars, text, todo, done, current, sections, pdf>>

ParseNext ==
    \/ ParseBegin
    \/ ParseLine
    \/ ParseReturn
    \/ CreatePdf
    \/ CreateDocx

ParseSpec == ParseInit /\ [][ParseNext]_vars

(***************************************************************************)
(* Vocabulary of the properties of parse_sections, stated on the lines of  *)
(* the text with surrounding whitespace removed.                           *)
(***************************************************************************)
Min(S) == CHOOSE m \in S : \A n \in S : m <= n
Max(S) == CHOOSE m \in S : \A n \in S : n <= m

SectionOrder ==
    <<"Correct Parts", "Potential Issues", "Missing Logic", "Suggested Improvements">>
SectionNames == {SectionOrder[i] : i \in DOMAIN SectionOrder}

Phrases(sec) ==
    IF sec = "Correct Parts" THEN {"Correct parts", "Correct Parts"}
    ELSE IF sec = "Potential Issues" THEN {"Potential issues", "Potential Issues"}
    ELSE IF sec = "Missing Logic" THEN {"Missing logic", "Missing Logic"}
    ELSE {"Suggested improvements", "Suggested Improvements"}

Names(l, sec) == \E p \in Phrases(sec) : Contains(l, p)
IsHeadingLine(l) == \E sec \in SectionNames : Names(l, sec)
\* A line naming several sections is the heading of the first of them in SectionOrder.
HeadingOf(l) == SectionOrder[Min({i \in DOMAIN SectionOrder : Names(l, SectionOrder[i])})]
IsBulletLine(l) == StartsWith(l, "-") \/ StartsWith(l, BulletChar)
TrimMarker(l) == Strip(LStripSet(l, {"-", BulletChar, " "}))

\* What the properties need to know of a line: the section it is the heading of
\* (None when it is no heading line), whether it starts with a dash or bullet,
\* and its text without the marker.
Classify(raw) ==
    LET l == Strip(raw) IN
    [heading |-> IF IsHeadingLine(l) THEN Some(HeadingOf(l)) ELSE None,
     bullet  |-> IsBulletLine(l),
     item    |-> TrimMarker(l)]

\* The lines the loop has visited, classified.
VisitedLines == <<>> \o [i \in DOMAIN done |-> Classify(done[i])]

\* The section of the nearest heading line above line i, None when there is none.
Owner(ls, i) ==
    LET hs == {j \in 1..(i - 1) : ls[j].heading # None}
    IN IF hs = {} THEN None ELSE ls[Max(hs)].heading

Items(secs, sec) == (CHOOSE e \in {secs[i] : i \in DOMAIN secs} : e.key = sec).items
Returned == ppc \in {"parsed", "pdf", "exported"}

\* Among the first n lines of ls, those owned by sec that start with a dash or
\* bullet (everyBullet) or that do so and contain no heading phrase (otherwise),
\* marker-trimmed, in input order.
RECURSIVE ExpectedItems(_, _, _, _)
ExpectedItems(ls, sec, n, everyBullet) ==
    IF n = 0 THEN <<>>
    ELSE ExpectedItems(ls, sec, n - 1, everyBullet)
         \o (IF /\ ls[n].bullet
                /\ everyBullet \/ ls[n].heading = None
                /\ Owner(ls, n) = Some(sec)
             THEN << ls[n].item >>
             ELSE <<>>)

\* C4 (as stated): every dash- or bullet-prefixed line is placed, in input order,
\* under the heading most recently seen above it, and nowhere else; bullet lines
\* with no heading above them appear in no section.
C4_EveryBulletLinePlaced ==
    Returned =>
        LET ls == VisitedLines IN
        \A sec \in SectionNames :
            Items(sections, sec) = ExpectedItems(ls, sec, Len(ls), TRUE)

\* C4 (amended): the same for the dash- or bullet-prefixed lines that contain no
\* heading phrase: each section holds exactly those whose nearest heading line
\* above is its own, marker-trimmed, in input order.
C4_ItemLinesPlaced ==
    Returned =>
        LET ls == VisitedLines IN
        \A sec \in SectionNames :
            Items(sections, sec) = ExpectedItems(ls, sec, Len(ls), FALSE)

\* A heading, then two different item lines: both are stored, in input order.
C4_Witness ==
    /\ Returned
    /\ Len(done) = 3
    /\ LET ls == VisitedLines IN
       /\ ls[1].heading # None
       /\ ls[2].bullet /\ ls[2].heading = None
       /\ ls[3].bullet /\ ls[3].heading = None
       /\ ls[2].item # ls[3].item
       /\ Items(sections, ls[1].heading[1]) = << ls[2].item, ls[3].item >>

\* C5: the mapping parse_sections returns has exactly the four keys, each once,
\* and when no line contains a heading phrase every one maps to the empty sequence.
C5_FourKeys ==
    Returned =>
        /\ Len(sections) = 4
        /\ {sections[i].key : i \in DOMAIN sections} = SectionNames
        /\ (\A i \in DOMAIN done : ~IsHeadingLine(Strip(done[i])))
              => \A i \in DOMAIN sections : sections[i].items = <<>>

\* A text with bullet lines and no heading has been parsed.
C5_Witness ==
    /\ Returned
    /\ \A i \in DOMAIN done : ~IsHeadingLine(Strip(done[i]))
    /\ \E i \in DOMAIN done : IsBulletLine(Strip(done[i]))

(***************************************************************************)
(* The structure of an exported document: the title, the headings, the     *)
(* bullets and the placeholders, in order (spacers left out).              *)
(***************************************************************************)
RECURSIVE PdfStructure(_)
PdfStructure(els) ==
    IF els = <<>> THEN <<>>
    ELSE LET e == Head(els) IN
         (IF e.kind = "Spacer" THEN <<>>
          ELSE IF e.kind = "ListFlowable"
               THEN [i \in DOMAIN e.items |-> <<"bullet", e.items[i].text>>]
          ELSE IF e.style = "Title" THEN << <<"title", e.text>> >>
          ELSE IF e.style = "Heading2" THEN << <<"heading", e.text>> >>
          ELSE << <<"placeholder", e.text>> >>)
         \o PdfStructure(Tail(els))

DocxStructure(body) ==
    [i \in DOMAIN body |->
        LET e == body[i] IN
        IF e.kind = "heading"
        THEN (IF e.level = 0 THEN <<"title", e.text>> ELSE <<"heading", e.text>>)
        ELSE IF e.style = "List Bullet" THEN <<"bullet", e.text>>
        ELSE <<"placeholder", e.text>>]

RECURSIVE ExpectedBody(_, _)
ExpectedBody(secs, n) ==
    IF n = 0 THEN <<>>
    ELSE LET sec == SectionOrder[n]
             items == Items(secs, sec)
         IN ExpectedBody(secs, n - 1)
            \o << <<"heading", sec>> >>
            \o (IF items = <<>> THEN << <<"placeholder", "No findings.">> >>
                ELSE [i \in DOMAIN items |-> <<"bullet", items[i]>>])

ExpectedDocument(secs) ==
    << <<"title", "ETL -> PySpark Validation Report">> >> \o ExpectedBody(secs, 4)

AllEmptyDocument ==
    << <<"title", "ETL -> PySpark Validation Report">>,
       <<"heading", "Correct Parts">>, <<"placeholder", "No findings.">>,
       <<"heading", "Potential Issues">>, <<"placeholder", "No findings.">>,
       <<"heading", "Missing Logic">>, <<"placeholder", "No findings.">>,
       <<"heading", "Suggested Improvements">>, <<"placeholder", "No findings.">> >>

\* C6: create_pdf and create_docx emit the same structure: the title, then for the
\* four sections in the fixed order a heading followed by the section's items as
\* bullets in stored order, or by the placeholder when it has none; for the
\* all-empty report that is the title and four headings each with the placeholder.
C6_ExportStructure ==
    ppc = "exported" =>
        /\ PdfStructure(pdf) = ExpectedDocument(sections)
        /\ DocxStructure(docx) = ExpectedDocument(sections)
        /\ (\A i \in DOMAIN sections : sections[i].items = <<>>)
              => /\ PdfStructure(pdf) = AllEmptyDocument
                 /\ DocxStructure(docx) = AllEmptyDocument

\* Both exporters have run on a report with an empty section and a section of
\* two items.
C6_Witness ==
    /\ ppc = "exported"
    /\ \E i \in DOMAIN sections : sections[i].items = <<>>
    /\ \E i \in DOMAIN sections : Len(sections[i].items) = 2

\* One iteration of the loop on a heading line, on a line matching neither rule.
HeadingLineStep ==
    IsHeadingLine(Strip(Head(todo)))
        => sections' = sections /\ current' = Some(HeadingOf(Strip(Head(todo))))
OtherLineStep ==
    (~IsHeadingLine(Strip(Head(todo))) /\ ~IsBulletLine(Strip(Head(todo))))
        => sections' = sections /\ current' = current
AllItemsFromItemLines ==
    ppc # "call" =>
        LET ls == VisitedLines IN
        \A i \in DOMAIN sections : \A k \in DOMAIN sections[i].items :
            \E j \in DOMAIN ls :
                /\ ls[j].bullet /\ ls[j].heading = None
                /\ sections[i].items[k] = ls[j].item

\* C8: a line containing a heading phrase (case-sensitive substring) only moves
\* the cursor to that section and stores nothing, even when it starts with a dash
\* or bullet; every stored item comes from a dash/bullet line with no heading
\* phrase; a line matching neither rule stores nothing and leaves the cursor alone.
C8_HeadingLinesOnlySwitch ==
    /\ []AllItemsFromItemLines
    /\ [][(ppc = "loop" /\ todo # <<>>) => (HeadingLineStep /\ OtherLineStep)]_vars

\* The loop has passed a dash-prefixed heading line while the cursor was set, and
\* a line matching neither rule.
C8_Witness ==
    /\ ppc = "loop"
    /\ Len(done) = 3
    /\ LET ls == VisitedLines IN
       /\ ls[1].heading # None /\ ~ls[1].bullet
       /\ ls[2].heading # None /\ ls[2].bullet
       /\ ls[2].heading # ls[1].heading
       /\ ls[3].heading = None /\ ~ls[3].bullet /\ ls[3].item # ""
       /\ current = ls[2].heading


=============================================================================
